---- MODULE Spec2Model ----
(***************************************************************************)
(* The MIPS assembler of src/src/ma.rs: lexer, build_symbol_table,         *)
(* tokenize_line, asseble_token and the driver assemble_file, as a state   *)
(* machine that walks a source text line by line through the three passes. *)
(* A u32 is kept as a pair <<hi, lo>> of 16-bit halves so that the 32-bit  *)
(* width of the encoded word is preserved.                                 *)
(***************************************************************************)
EXTENDS Integers, Sequences, FiniteSets, TLC

VARIABLES
    source,        \* the lines of the file read by assemble_file
    pc,            \* the pass assemble_file is in
    idx,           \* position of the running loop in its line sequence
    lexemes,       \* Vec<Vec<Lexeme>> built by lexer
    symbol_table,  \* HashMap<String, u32> built by build_symbol_table
    addr,          \* address counter of build_symbol_table
    addr_at,       \* history: value of addr when each line was reached
    line_nr,       \* emitted-address counter of assemble_file
    output,        \* the lines printed by assemble_file, in order
    log            \* the diagnostics printed by tokenize_line, per line

vars == <<source, pc, idx, lexemes, symbol_table, addr, addr_at, line_nr, output, log>>

\* Longest program drawn from FlowLines.
MaxLines == 4

Pow16 == 65536

(***************************************************************************)
(* u32 arithmetic on <<hi, lo>> halves.                                    *)
(***************************************************************************)
U32(n) == <<(n \div Pow16) % Pow16, n % Pow16>>

Hi(w) == w[1]

Lo(w) == w[2]

RECURSIVE BitOr(_, _)
BitOr(a, b) ==
    IF a = 0 THEN b
    ELSE IF b = 0 THEN a
    ELSE (IF a % 2 = 1 \/ b % 2 = 1 THEN 1 ELSE 0) + 2 * BitOr(a \div 2, b \div 2)

Or32(x, y) == <<BitOr(Hi(x), Hi(y)), BitOr(Lo(x), Lo(y))>>

RECURSIVE Pow2(_)
Pow2(n) == IF n = 0 THEN 1 ELSE 2 * Pow2(n - 1)

\* (x as u32) << n for a u8 x: bits shifted past bit 31 are lost.
Shl(x, n) ==
    IF n >= 16
    THEN <<(x * Pow2(n - 16)) % Pow16, 0>>
    ELSE <<((x * Pow2(n)) \div Pow16) % Pow16, (x * Pow2(n)) % Pow16>>

(***************************************************************************)
(* Lexemes.  Every lexeme is a record of the same shape; the fields that a *)
(* variant does not carry hold a fixed filler.                             *)
(***************************************************************************)
Lexeme(kind, ins, reg, num, name) ==
    [kind |-> kind, ins |-> ins, reg |-> reg, num |-> num, name |-> name]

Comma == Lexeme("Comma", "", 0, <<0, 0>>, <<>>)

OpenParen == Lexeme("OpenParen", "", 0, <<0, 0>>, <<>>)

CloseParen == Lexeme("CloseParen", "", 0, <<0, 0>>, <<>>)

Colon == Lexeme("Colon", "", 0, <<0, 0>>, <<>>)

InsR(ins) == Lexeme("R", ins, 0, <<0, 0>>, <<>>)

InsI(ins) == Lexeme("I", ins, 0, <<0, 0>>, <<>>)

InsJ(ins) == Lexeme("J", ins, 0, <<0, 0>>, <<>>)

Register(r) == Lexeme("Register", "", r, <<0, 0>>, <<>>)

Label(name) == Lexeme("Label", "", 0, <<0, 0>>, name)

Number(n) == Lexeme("Number", "", 0, n, <<>>)

(***************************************************************************)
(* get_funct and get_opcode.                                               *)
(***************************************************************************)
get_funct(ins) ==
    CASE ins = "Add" -> 32
      [] ins = "Addu" -> 33
      [] ins = "Sub" -> 34
      [] ins = "Subu" -> 35
      [] ins = "And" -> 36
      [] ins = "Or" -> 37
      [] ins = "Nor" -> 39
      [] ins = "Slt" -> 42
      [] OTHER -> 0

get_opcode(ins) ==
    CASE ins = "Break" -> 0
      [] ins = "J" -> 2
      [] ins = "Beq" -> 4
      [] ins = "Bne" -> 5
      [] ins = "Addi" -> 8
      [] ins = "Addiu" -> 9
      [] ins = "Lui" -> 15
      [] ins = "Lw" -> 35
      [] ins = "Sw" -> 43
      [] OTHER -> 0

(***************************************************************************)
(* lexer: the regex ([$a-z0-9]+)|,|\(|\)|: scanned over one line, and the  *)
(* classification of each match.                                           *)
(***************************************************************************)
Digits == <<"0", "1", "2", "3", "4", "5", "6", "7", "8", "9">>

DigitChars == {Digits[i] : i \in 1..10}

DigitValue(c) == (CHOOSE i \in 1..10 : Digits[i] = c) - 1

WordChars ==
    {"$"} \cup DigitChars \cup
    {"a", "b", "c", "d", "e", "f", "g", "h", "i", "j", "k", "l", "m",
     "n", "o", "p", "q", "r", "s", "t", "u", "v", "w", "x", "y", "z"}

PunctChars == {",", "(", ")", ":"}

\* Last position of the maximal run of word characters that starts at p.
RECURSIVE WordEnd(_, _)
WordEnd(line, p) ==
    IF p < Len(line) /\ line[p + 1] \in WordChars THEN WordEnd(line, p + 1) ELSE p

\* find_iter: the non-overlapping matches of the regex, left to right.
RECURSIVE find_iter(_, _)
find_iter(line, p) ==
    IF p > Len(line) THEN <<>>
    ELSE IF line[p] \in WordChars
    THEN <<SubSeq(line, p, WordEnd(line, p))>> \o find_iter(line, WordEnd(line, p) + 1)
    ELSE IF line[p] \in PunctChars
    THEN <<<<line[p]>>>> \o find_iter(line, p + 1)
    ELSE find_iter(line, p + 1)

\* u32::from_str: decimal digits only, Err when the value leaves 32 bits.
RECURSIVE from_str_acc(_, _, _)
from_str_acc(expr, p, acc) ==
    IF p > Len(expr) THEN [ok |-> TRUE, val |-> acc]
    ELSE IF expr[p] \notin DigitChars THEN [ok |-> FALSE, val |-> <<0, 0>>]
    ELSE LET lo == Lo(acc) * 10 + DigitValue(expr[p])
             hi == Hi(acc) * 10 + (lo \div Pow16)
         IN  IF hi >= Pow16 THEN [ok |-> FALSE, val |-> <<0, 0>>]
             ELSE from_str_acc(expr, p + 1, <<hi, lo % Pow16>>)

from_str(expr) == from_str_acc(expr, 1, <<0, 0>>)

Keyword(expr) ==
    CASE expr = <<",">> -> Comma
      [] expr = <<"(">> -> OpenParen
      [] expr = <<")">> -> CloseParen
      [] expr = <<":">> -> Colon
      [] expr = <<"a", "n", "d">> -> InsR("And")
      [] expr = <<"s", "u", "b">> -> InsR("Sub")
      [] expr = <<"n", "o", "r">> -> InsR("Nor")
      [] expr = <<"s", "l", "t">> -> InsR("Slt")
      [] expr = <<"a", "d", "d">> -> InsR("Add")
      [] expr = <<"o", "r">> -> InsR("Or")
      [] expr = <<"a", "d", "d", "u">> -> InsR("Addu")
      [] expr = <<"s", "u", "b", "u">> -> InsR("Subu")
      [] expr = <<"b", "e", "q">> -> InsI("Beq")
      [] expr = <<"s", "w">> -> InsI("Sw")
      [] expr = <<"b", "n", "e">> -> InsI("Bne")
      [] expr = <<"l", "u", "i">> -> InsI("Lui")
      [] expr = <<"l", "w">> -> InsI("Lw")
      [] expr = <<"a", "d", "d", "i">> -> InsI("Addi")
      [] expr = <<"a", "d", "d", "i", "u">> -> InsI("Addiu")
      [] expr = <<"b", "r", "e", "a", "k">> -> InsJ("Break")
      [] expr = <<"j">> -> InsJ("J")
      [] expr = <<"z", "e", "r", "o">> -> Register(0)
      [] expr = <<"a", "t">> -> Register(1)
      [] expr = <<"v", "0">> -> Register(2)
      [] expr = <<"v", "1">> -> Register(3)
      [] expr = <<"a", "0">> -> Register(4)
      [] expr = <<"a", "1">> -> Register(5)
      [] expr = <<"a", "2">> -> Register(6)
      [] expr = <<"a", "3">> -> Register(7)
      [] expr = <<"t", "0">> -> Register(8)
      [] expr = <<"t", "1">> -> Register(9)
      [] expr = <<"t", "2">> -> Register(10)
      [] expr = <<"t", "3">> -> Register(11)
      [] expr = <<"t", "4">> -> Register(12)
      [] expr = <<"t", "5">> -> Register(13)
      [] expr = <<"t", "6">> -> Register(14)
      [] expr = <<"t", "7">> -> Register(15)
      [] expr = <<"s", "0">> -> Register(16)
      [] expr = <<"s", "1">> -> Register(17)
      [] expr = <<"s", "2">> -> Register(18)
      [] expr = <<"s", "3">> -> Register(19)
      [] expr = <<"s", "4">> -> Register(20)
      [] expr = <<"s", "5">> -> Register(21)
      [] expr = <<"s", "6">> -> Register(22)
      [] expr = <<"s", "7">> -> Register(23)
      [] expr = <<"t", "8">> -> Register(24)
      [] expr = <<"t", "9">> -> Register(25)
      [] expr = <<"k", "0">> -> Register(26)
      [] expr = <<"k", "1">> -> Register(27)
      [] expr = <<"g", "p">> -> Register(28)
      [] expr = <<"s", "p">> -> Register(29)
      [] expr = <<"f", "p">> -> Register(30)
      [] expr = <<"r", "a">> -> Register(31)
      [] OTHER -> Label(expr)

\* The closure mapped over the matches of one line.
Classify(expr) ==
    IF from_str(expr).ok THEN Number(from_str(expr).val) ELSE Keyword(expr)

\* The lexemes of one source line.
LexLine(line) ==
    LET found == find_iter(line, 1)
    IN  [j \in 1..Len(found) |-> Classify(found[j])]

(***************************************************************************)
(* build_symbol_table: one iteration of its loop.                          *)
(***************************************************************************)
EmptyTable == [l \in {} |-> 0]

\* An insert that is lost: the table is returned as it was.
InsertNothing(table, label, value) == table

\* HashMap::insert: a later declaration of the same label replaces the entry.
Insert(table, label, value) ==
    [l \in DOMAIN table \cup {label} |-> IF l = label THEN value ELSE table[l]]

\* HashMap::get.
Lookup(table, label) ==
    IF label \in DOMAIN table
    THEN [found |-> TRUE, val |-> table[label]]
    ELSE [found |-> FALSE, val |-> 0]

\* An address step that forgets the jump family.
AddrStepNoJump(first) == IF first.kind \in {"R", "I"} THEN 4 ELSE 0

\* The amount build_symbol_table adds to addr for a line that is not a label.
AddrStep(first) == IF first.kind \in {"R", "I", "J"} THEN 4 ELSE 0

\* The value build_symbol_table stores for a label reached at address a.
LabelValue(a) == a

(***************************************************************************)
(* tokenize_line.  The result is Some(token), None, or a panic (an index   *)
(* past the end of the line), together with the diagnostics printed.       *)
(***************************************************************************)
Token(fmt, opcode, rs, rt, rd, shamt, funct, imm) ==
    [fmt |-> fmt, opcode |-> opcode, rs |-> rs, rt |-> rt, rd |-> rd,
     shamt |-> shamt, funct |-> funct, imm |-> imm]

TokenR(opcode, rs, rt, rd, shamt, funct) ==
    Token("R", opcode, rs, rt, rd, shamt, funct, <<0, 0>>)

TokenI(opcode, rs, rt, imm) == Token("I", opcode, rs, rt, 0, 0, 0, imm)

TokenJ(opcode, a) == Token("J", opcode, 0, 0, 0, 0, 0, a)

NoToken == Token("", 0, 0, 0, 0, 0, 0, <<0, 0>>)

Some(tok, msgs) == [res |-> "Some", tok |-> tok, msgs |-> msgs]

None(msgs) == [res |-> "None", tok |-> NoToken, msgs |-> msgs]

Panic(msgs) == [res |-> "Panic", tok |-> NoToken, msgs |-> msgs]

\* if let Lexeme::Register(reg) = lx { reg } else { println!(..); 0 }
RegOrZero(lx) == IF lx.kind = "Register" THEN lx.reg ELSE 0

RegMsg(lx) == IF lx.kind = "Register" THEN <<>> ELSE <<"expected register">>

\* if let Lexeme::Number(number) = lx { number } else { println!(..); 0 }
NumOrZero(lx) == IF lx.kind = "Number" THEN lx.num ELSE <<0, 0>>

NumMsg(lx) == IF lx.kind = "Number" THEN <<>> ELSE <<"expected number">>

\* The label operand of beq, bne and j: the symbol-table entry, or 0.
LabelOrZero(lx, table) ==
    IF lx.kind = "Label" THEN U32(Lookup(table, lx.name).val) ELSE <<0, 0>>

LabelMsg(lx, table, other) ==
    IF lx.kind = "Label"
    THEN IF Lookup(table, lx.name).found THEN <<>> ELSE <<"Could not find label">>
    ELSE <<other>>

tokenize_R(line) ==
    IF Len(line) = 6
    THEN Some(TokenR(0, RegOrZero(line[4]), RegOrZero(line[6]), RegOrZero(line[2]),
                     0, get_funct(line[1].ins)), <<>>)
    ELSE None(<<"did not find expected number of symbols">>)

\* The (s, t, i) triple of the immediate family and the diagnostics printed.
Operands(s, t, i, msgs) == [panic |-> FALSE, s |-> s, t |-> t, i |-> i, msgs |-> msgs]

OperandsPanic(msgs) == [panic |-> TRUE, s |-> 0, t |-> 0, i |-> <<0, 0>>, msgs |-> msgs]

WrongCount == Operands(0, 0, <<0, 0>>, <<"wrong number of lexemes">>)

operands_branch(line, table) ==
    IF Len(line) # 6 THEN WrongCount
    ELSE Operands(RegOrZero(line[2]), RegOrZero(line[4]), LabelOrZero(line[6], table),
                  RegMsg(line[2]) \o RegMsg(line[4])
                      \o LabelMsg(line[6], table, "expected label"))

operands_addi(line) ==
    IF Len(line) # 6 THEN WrongCount
    ELSE Operands(RegOrZero(line[4]), RegOrZero(line[2]), NumOrZero(line[6]),
                  RegMsg(line[2]) \o RegMsg(line[4]) \o NumMsg(line[6]))

operands_mem(line) ==
    IF Len(line) = 7
    THEN Operands(RegOrZero(line[6]), RegOrZero(line[2]), NumOrZero(line[4]),
                  RegMsg(line[2]) \o RegMsg(line[6]) \o NumMsg(line[4]))
    ELSE IF Len(line) = 4
    THEN Operands(RegOrZero(line[4]), RegOrZero(line[2]), <<0, 0>>,
                  RegMsg(line[2]) \o RegMsg(line[4]))
    ELSE WrongCount

\* The diagnostic for a non-number operand formats line[4] of a line of
\* length 4, which is past its end.
operands_lui(line) ==
    IF Len(line) # 4 THEN WrongCount
    ELSE IF line[4].kind = "Number"
    THEN Operands(0, RegOrZero(line[2]), line[4].num, RegMsg(line[2]))
    ELSE OperandsPanic(RegMsg(line[2]))

operands_I(line, table) ==
    CASE line[1].ins \in {"Beq", "Bne"} -> operands_branch(line, table)
      [] line[1].ins \in {"Addi", "Addiu"} -> operands_addi(line)
      [] line[1].ins \in {"Lw", "Sw"} -> operands_mem(line)
      [] line[1].ins = "Lui" -> operands_lui(line)
      [] OTHER -> Operands(0, 0, <<0, 0>>, <<"Unexpected instruction">>)

tokenize_I(line, table) ==
    LET o == operands_I(line, table)
    IN  IF o.panic THEN Panic(o.msgs)
        ELSE Some(TokenI(get_opcode(line[1].ins), o.s, o.t, o.i), o.msgs)

tokenize_J(line, table) ==
    IF Len(line) # 2 THEN None(<<"wrong number of lexemes for jmp">>)
    ELSE Some(TokenJ(get_opcode("J"), LabelOrZero(line[2], table)),
              LabelMsg(line[2], table, "Expected addr/label"))

\* The number of lexemes a break line must have to yield a record.
BreakLen == 2

tokenize_break(line) ==
    IF Len(line) # BreakLen THEN None(<<"wrong number of lexemes for break">>)
    ELSE Some(TokenJ(get_opcode("Break"), U32(13)), <<>>)

tokenize_line(line, table) ==
    IF Len(line) = 0 THEN None(<<>>)
    ELSE CASE line[1].kind = "R" -> tokenize_R(line)
           [] line[1].kind = "I" -> tokenize_I(line, table)
           [] line[1].kind = "J" /\ line[1].ins = "J" -> tokenize_J(line, table)
           [] line[1].kind = "J" /\ line[1].ins = "Break" -> tokenize_break(line)
           [] OTHER -> None(<<>>)

(***************************************************************************)
(* asseble_token.                                                          *)
(***************************************************************************)
asseble_token(instr) ==
    CASE instr.fmt = "R" ->
            Or32(Or32(Or32(Or32(Or32(Shl(instr.opcode, 26), Shl(instr.rs, 21)),
                 Shl(instr.rt, 16)), Shl(instr.rd, 11)), Shl(instr.shamt, 6)),
                 U32(instr.funct))
      [] instr.fmt = "I" ->
            Or32(Or32(Or32(Shl(instr.opcode, 26), Shl(instr.rs, 21)),
                 Shl(instr.rt, 16)), instr.imm)
      [] instr.fmt = "J" -> Or32(Shl(instr.opcode, 26), instr.imm)

(***************************************************************************)
(* Source texts.  FlowLines are the lines programs of up to MaxLines lines *)
(* are built from; EncLines are checked as one-line programs and as        *)
(* one-line programs followed by the declaration of their label.           *)
(***************************************************************************)
\* 'add t0, t1, t2'
SrcAdd ==
    <<"a", "d", "d", " ", "t", "0", ",", " ", "t", "1", ",", " ", "t", "2">>
\* 'target:'
SrcLabel ==
    <<"t", "a", "r", "g", "e", "t", ":">>
\* 'j target'
SrcJ ==
    <<"j", " ", "t", "a", "r", "g", "e", "t">>
\* 'beq t0, t1, target'
SrcBeq ==
    <<"b", "e", "q", " ", "t", "0", ",", " ", "t", "1", ",", " ", "t", "a", "r", "g", "e", "t">>
\* 'addi t0, t1'
SrcAddiShort ==
    <<"a", "d", "d", "i", " ", "t", "0", ",", " ", "t", "1">>
\* 'add t0, t1'
SrcAddShort ==
    <<"a", "d", "d", " ", "t", "0", ",", " ", "t", "1">>
\* ''
SrcBlank ==
    <<>>
\* 'lui t0, x'
SrcLuiLabel ==
    <<"l", "u", "i", " ", "t", "0", ",", " ", "x">>
\* 'add $t0, $t1, $t2'
SrcAddSigil ==
    <<"a", "d", "d", " ", "$", "t", "0", ",", " ", "$", "t", "1", ",", " ", "$", "t", "2">>
\* 'lw $t0, 4($sp)'
SrcLwSigil ==
    <<"l", "w", " ", "$", "t", "0", ",", " ", "4", "(", "$", "s", "p", ")">>
\* 'lw t0, 4(sp)'
SrcLw ==
    <<"l", "w", " ", "t", "0", ",", " ", "4", "(", "s", "p", ")">>
\* 'addu s0, s1, s2'
SrcAddu ==
    <<"a", "d", "d", "u", " ", "s", "0", ",", " ", "s", "1", ",", " ", "s", "2">>
\* 'sub t0, t1, t2'
SrcSub ==
    <<"s", "u", "b", " ", "t", "0", ",", " ", "t", "1", ",", " ", "t", "2">>
\* 'subu v0, a0, a1'
SrcSubu ==
    <<"s", "u", "b", "u", " ", "v", "0", ",", " ", "a", "0", ",", " ", "a", "1">>
\* 'and t0, t1, t2'
SrcAnd ==
    <<"a", "n", "d", " ", "t", "0", ",", " ", "t", "1", ",", " ", "t", "2">>
\* 'or t0, t1, t2'
SrcOr ==
    <<"o", "r", " ", "t", "0", ",", " ", "t", "1", ",", " ", "t", "2">>
\* 'nor t0, t1, t2'
SrcNor ==
    <<"n", "o", "r", " ", "t", "0", ",", " ", "t", "1", ",", " ", "t", "2">>
\* 'slt t0, t1, t2'
SrcSlt ==
    <<"s", "l", "t", " ", "t", "0", ",", " ", "t", "1", ",", " ", "t", "2">>
\* 'bne t0, t1, target'
SrcBne ==
    <<"b", "n", "e", " ", "t", "0", ",", " ", "t", "1", ",", " ", "t", "a", "r", "g", "e", "t">>
\* 'addi t0, t1, 65535'
SrcAddi ==
    <<"a", "d", "d", "i", " ", "t", "0", ",", " ", "t", "1", ",", " ", "6", "5", "5", "3", "5">>
\* 'addi t0, t1, 65536'
SrcAddiWide ==
    <<"a", "d", "d", "i", " ", "t", "0", ",", " ", "t", "1", ",", " ", "6", "5", "5", "3", "6">>
\* 'addiu t0, t1, 1'
SrcAddiu ==
    <<"a", "d", "d", "i", "u", " ", "t", "0", ",", " ", "t", "1", ",", " ", "1">>
\* 'lui t0, 5'
SrcLui ==
    <<"l", "u", "i", " ", "t", "0", ",", " ", "5">>
\* 'sw t0, 4(sp)'
SrcSw ==
    <<"s", "w", " ", "t", "0", ",", " ", "4", "(", "s", "p", ")">>
\* 'break'
SrcBreak ==
    <<"b", "r", "e", "a", "k">>
\* 'break x'
SrcBreakTrail ==
    <<"b", "r", "e", "a", "k", " ", "x">>
\* '# OK'
SrcComment ==
    <<"#", " ", "O", "K">>
\* 'j nowhere'
SrcJMissing ==
    <<"j", " ", "n", "o", "w", "h", "e", "r", "e">>
\* 'add t0, t1, 7'
SrcAddBadKind ==
    <<"a", "d", "d", " ", "t", "0", ",", " ", "t", "1", ",", " ", "7">>
\* 'addi t0, t1, 4294967296'
SrcAddiHuge ==
    <<"a", "d", "d", "i", " ", "t", "0", ",", " ", "t", "1", ",", " ", "4", "2", "9", "4", "9", "6", "7", "2", "9", "6">>
\* ', t0'
SrcStray ==
    <<",", " ", "t", "0">>

FlowLines ==
    {SrcAdd, SrcLabel, SrcJ, SrcBeq, SrcAddiShort, SrcAddShort, SrcBlank, SrcLuiLabel}

EncLines ==
    {SrcAdd, SrcAddu, SrcSub, SrcSubu, SrcAnd, SrcOr, SrcNor, SrcSlt,
     SrcBeq, SrcBne, SrcAddi, SrcAddiu, SrcLui, SrcLw, SrcSw, SrcJ, SrcBreak,
     SrcAddSigil, SrcLwSigil, SrcAddiWide, SrcAddiHuge, SrcBreakTrail,
     SrcComment, SrcJMissing, SrcAddBadKind, SrcStray}

RECURSIVE ProgramsOfLen(_)
ProgramsOfLen(n) ==
    IF n = 0 THEN {<<>>}
    ELSE {Append(p, l) : p \in ProgramsOfLen(n - 1), l \in FlowLines}

Programs ==
    UNION {ProgramsOfLen(n) : n \in 0..MaxLines}
        \cup {<<l>> : l \in EncLines}
        \cup {<<l, SrcLabel>> : l \in EncLines}

(***************************************************************************)
(* assemble_file.                                                          *)
(***************************************************************************)
\* The address printed for the first emitted instruction.
Base == 0

\* An emitted-address counter that counts instructions, not bytes.
NextLineNrByOne(a) == a + 1

\* The emitted-address counter after an instruction is printed at address a.
NextLineNr(a) == a + 4

Init ==
    /\ source \in Programs
    /\ pc = "lexer"
    /\ idx = 1
    /\ lexemes = <<>>
    /\ symbol_table = EmptyTable
    /\ addr = 0
    /\ addr_at = <<>>
    /\ line_nr = Base
    /\ output = <<>>
    /\ log = <<>>

\* lexer: one line of source.lines().
LexerStep ==
    /\ pc = "lexer"
    /\ idx <= Len(source)
    /\ lexemes' = Append(lexemes, LexLine(source[idx]))
    /\ idx' = idx + 1
    /\ UNCHANGED <<source, pc, symbol_table, addr, addr_at, line_nr, output, log>>

\* lexer returns; build_symbol_table starts on a clone of the lexemes.
LexerReturn ==
    /\ pc = "lexer"
    /\ idx > Len(source)
    /\ pc' = "build_symbol_table"
    /\ idx' = 1
    /\ UNCHANGED <<source, lexemes, symbol_table, addr, addr_at, line_nr, output, log>>

\* build_symbol_table: one line with at least one lexeme.
SymbolStep ==
    /\ pc = "build_symbol_table"
    /\ idx <= Len(lexemes)
    /\ Len(lexemes[idx]) > 0
    /\ LET first == lexemes[idx][1]
       IN  IF first.kind = "Label"
           THEN /\ symbol_table' = Insert(symbol_table, first.name, LabelValue(addr))
                /\ addr' = addr
           ELSE /\ symbol_table' = symbol_table
                /\ addr' = addr + AddrStep(first)
    /\ addr_at' = Append(addr_at, addr)
    /\ idx' = idx + 1
    /\ UNCHANGED <<source, pc, lexemes, line_nr, output, log>>

\* build_symbol_table: line[0] of a line without lexemes is out of bounds.
SymbolPanic ==
    /\ pc = "build_symbol_table"
    /\ idx <= Len(lexemes)
    /\ Len(lexemes[idx]) = 0
    /\ pc' = "panicked"
    /\ UNCHANGED <<source, idx, lexemes, symbol_table, addr, addr_at, line_nr, output, log>>

\* build_symbol_table returns; the loop of assemble_file starts.
SymbolReturn ==
    /\ pc = "build_symbol_table"
    /\ idx > Len(lexemes)
    /\ pc' = "assemble"
    /\ idx' = 1
    /\ UNCHANGED <<source, lexemes, symbol_table, addr, addr_at, line_nr, output, log>>

\* The record printed for a token, with the line and token it came from.
Printed(line, a, tok) ==
    [line |-> line, addr |-> a, word |-> asseble_token(tok), token |-> tok]

\* assemble_file: one line for which tokenize_line returns.
AssembleStep ==
    /\ pc = "assemble"
    /\ idx <= Len(lexemes)
    /\ LET r == tokenize_line(lexemes[idx], symbol_table)
       IN  /\ r.res # "Panic"
           /\ log' = Append(log, r.msgs)
           /\ IF r.res = "Some"
              THEN /\ output' = Append(output, Printed(idx, line_nr, r.tok))
                   /\ line_nr' = NextLineNr(line_nr)
              ELSE UNCHANGED <<output, line_nr>>
    /\ idx' = idx + 1
    /\ UNCHANGED <<source, pc, lexemes, symbol_table, addr, addr_at>>

\* assemble_file: tokenize_line panics on the line.
AssemblePanic ==
    /\ pc = "assemble"
    /\ idx <= Len(lexemes)
    /\ LET r == tokenize_line(lexemes[idx], symbol_table)
       IN  /\ r.res = "Panic"
           /\ log' = Append(log, r.msgs)
    /\ pc' = "panicked"
    /\ UNCHANGED <<source, idx, lexemes, symbol_table, addr, addr_at, line_nr, output>>

\* assemble_file returns Ok(()).
AssembleReturn ==
    /\ pc = "assemble"
    /\ idx > Len(lexemes)
    /\ pc' = "done"
    /\ UNCHANGED <<source, idx, lexemes, symbol_table, addr, addr_at, line_nr, output, log>>

Next ==
    \/ LexerStep
    \/ LexerReturn
    \/ SymbolStep
    \/ SymbolPanic
    \/ SymbolReturn
    \/ AssembleStep
    \/ AssemblePanic
    \/ AssembleReturn

Spec == Init /\ [][Next]_vars

(***************************************************************************)
(* Properties.                                                             *)
(***************************************************************************)
\* Fields of an encoded word.
OpcodeField(w) == Hi(w) \div 1024

RsField(w) == (Hi(w) \div 32) % 32

RtField(w) == Hi(w) % 32

ImmField(w) == Lo(w)

FunctField(w) == Lo(w) % 64

AddrField(w) == <<Hi(w) % 1024, Lo(w)>>

IsMnemonic(lx) == lx.kind \in {"R", "I", "J"}

\* Lines build_symbol_table has walked, lines assemble_file has handled.
Walked == 1..Len(addr_at)

Handled == 1..Len(log)

Emitted == {output[k] : k \in 1..Len(output)}

EmittedFor(k) == {e \in Emitted : e.line = k}

\* The address counter of build_symbol_table after line k.
AddrAfter(k) == IF k < Len(addr_at) THEN addr_at[k + 1] ELSE addr

\* Line k declares a label and no walked line after it declares the same one.
LastDeclaration(k) ==
    /\ k \in Walked
    /\ lexemes[k][1].kind = "Label"
    /\ \A m \in Walked : m > k => lexemes[m][1] # lexemes[k][1]

\* C1: build_symbol_table starts its counter at the start address, adds 4 for
\* a line whose first lexeme is a mnemonic and 0 for a label line, and records
\* for a label the instruction index (current address >> 2).
C1_LabelIsInstructionIndex ==
    /\ Len(addr_at) > 0 => addr_at[1] = 0
    /\ \A k \in Walked :
        /\ IsMnemonic(lexemes[k][1]) => AddrAfter(k) = addr_at[k] + 4
        /\ lexemes[k][1].kind = "Label" => AddrAfter(k) = addr_at[k]
        /\ LastDeclaration(k) =>
               symbol_table[lexemes[k][1].name] = addr_at[k] \div 4

\* The label operand of a branch line, when it has one that the table holds.
IsBranchOnLabel(line) ==
    /\ Len(line) = 6
    /\ line[1].kind = "I"
    /\ line[1].ins \in {"Beq", "Bne"}
    /\ line[6].kind = "Label"
    /\ line[6].name \in DOMAIN symbol_table

\* C2: the immediate of a beq/bne on a known label is
\* ((~current_instruction_index) + target_index) masked to 16 bits.
C2_BranchIsPcRelative ==
    \A e \in Emitted :
        IsBranchOnLabel(lexemes[e.line]) =>
            LET current == addr_at[e.line] \div 4
                target == symbol_table[lexemes[e.line][6].name] \div 4
            IN  e.token.imm = <<0, (65535 - current + target) % Pow16>>

\* A structural parse failure of a register, immediate or j line: wrong
\* operand count, wrong operand kind, or a label the symbol table lacks.
WrongOperandCount(line) ==
    \/ line[1].kind = "R" /\ Len(line) # 6
    \/ line[1].kind = "I" /\ line[1].ins \in {"Beq", "Bne", "Addi", "Addiu"} /\ Len(line) # 6
    \/ line[1].kind = "I" /\ line[1].ins \in {"Lw", "Sw"} /\ Len(line) \notin {4, 7}
    \/ line[1].kind = "I" /\ line[1].ins = "Lui" /\ Len(line) # 4
    \/ line[1].kind = "J" /\ line[1].ins = "J" /\ Len(line) # 2

WrongOperandKind(line) ==
    /\ line[1].kind = "R"
    /\ Len(line) = 6
    /\ \E p \in {2, 4, 6} : line[p].kind # "Register"

UnresolvedLabel(line) ==
    \/ /\ line[1].kind = "J" /\ line[1].ins = "J" /\ Len(line) = 2
       /\ line[2].kind = "Label" /\ line[2].name \notin DOMAIN symbol_table
    \/ /\ line[1].kind = "I" /\ line[1].ins \in {"Beq", "Bne"} /\ Len(line) = 6
       /\ line[6].kind = "Label" /\ line[6].name \notin DOMAIN symbol_table

StructuralFailure(line) ==
    WrongOperandCount(line) \/ WrongOperandKind(line) \/ UnresolvedLabel(line)

\* C3: a line with a structural parse failure emits no word and leaves the
\* emitted-address counter alone.
C3_FailedLineEmitsNothing ==
    \A k \in Handled :
        StructuralFailure(lexemes[k]) => EmittedFor(k) = {}

\* C4: the operand of an immediate or jump record is masked to its field, so
\* the word's other fields are exactly opcode, rs and rt.
C4_OperandIsMasked ==
    \A e \in Emitted :
        /\ e.token.fmt = "I" =>
               /\ ImmField(e.word) = Lo(e.token.imm)
               /\ Hi(e.word) = e.token.opcode * 1024 + e.token.rs * 32 + e.token.rt
        /\ e.token.fmt = "J" =>
               /\ AddrField(e.word) = <<Hi(e.token.imm) % 1024, Lo(e.token.imm)>>
               /\ OpcodeField(e.word) = e.token.opcode

\* The opcode and function table of the instruction set.
TableOpcode(ins) ==
    CASE ins = "Beq" -> 4 [] ins = "Bne" -> 5 [] ins = "Addi" -> 8
      [] ins = "Addiu" -> 9 [] ins = "Lui" -> 15 [] ins = "Lw" -> 35
      [] ins = "Sw" -> 43 [] ins = "J" -> 2 [] OTHER -> 0

TableFunct(ins) ==
    CASE ins = "Add" -> 32 [] ins = "Addu" -> 33 [] ins = "Sub" -> 34
      [] ins = "Subu" -> 35 [] ins = "And" -> 36 [] ins = "Or" -> 37
      [] ins = "Nor" -> 39 [] ins = "Slt" -> 42

\* C5: a valid line encodes the table's opcode and function code; break with
\* no operand encodes opcode 0 and address field 0xd; break followed by any
\* token is a parse failure.
C5_TableBitPattern ==
    /\ \A e \in Emitted :
        LET first == lexemes[e.line][1]
        IN  (log[e.line] = <<>> /\ Hi(e.token.imm) = 0) =>
                /\ OpcodeField(e.word) = TableOpcode(first.ins)
                /\ first.kind = "R" => FunctField(e.word) = TableFunct(first.ins)
    /\ \A k \in Handled :
        /\ lexemes[k] = <<InsJ("Break")>> =>
               \E e \in EmittedFor(k) :
                   OpcodeField(e.word) = 0 /\ AddrField(e.word) = <<0, 13>>
        /\ (lexemes[k][1] = InsJ("Break") /\ Len(lexemes[k]) > 1) =>
               EmittedFor(k) = {}

\* C6: $t0 and t0 lex to the same Register, and operands bind left to right:
\* add $t0, $t1, $t2 gives rd=8, rs=9, rt=10; lw $t0, 4($sp) gives rt=8,
\* rs=29, immediate=4.
C6_SigilAndBareRegisters ==
    /\ \A k \in 1..Len(lexemes) :
        /\ source[k] \in {SrcAdd, SrcAddSigil} =>
               lexemes[k] = <<InsR("Add"), Register(8), Comma, Register(9),
                              Comma, Register(10)>>
        /\ source[k] \in {SrcLw, SrcLwSigil} =>
               lexemes[k] = <<InsI("Lw"), Register(8), Comma, Number(<<0, 4>>),
                              OpenParen, Register(29), CloseParen>>
    /\ \A k \in Handled :
        /\ source[k] \in {SrcAdd, SrcAddSigil} =>
               \E e \in EmittedFor(k) :
                   /\ e.token.fmt = "R"
                   /\ e.token.rd = 8 /\ e.token.rs = 9 /\ e.token.rt = 10
        /\ source[k] \in {SrcLw, SrcLwSigil} =>
               \E e \in EmittedFor(k) :
                   /\ e.token.fmt = "I"
                   /\ e.token.rt = 8 /\ e.token.rs = 29 /\ e.token.imm = <<0, 4>>

\* C7: no line halts the run: neither pass stops before the last line.
C7_NoLineHaltsTheRun == pc # "panicked"

\* The label operand of a j, beq or bne line.
HasLabelOperand(line) ==
    \/ /\ line[1] = InsJ("J") /\ Len(line) = 2 /\ line[2].kind = "Label"
    \/ /\ line[1] \in {InsI("Beq"), InsI("Bne")} /\ Len(line) = 6
       /\ line[6].kind = "Label"

OperandName(line) == line[Len(line)].name

\* Lines that declare the label.
Declarations(name) ==
    {k \in 1..Len(lexemes) : Len(lexemes[k]) > 0 /\ lexemes[k][1] = Label(name)}

Parsing == pc \in {"assemble", "done"} \/ Len(log) > 0

TableComplete ==
    \A k \in 1..Len(lexemes) :
        (Len(lexemes[k]) > 0 /\ lexemes[k][1].kind = "Label") =>
            lexemes[k][1].name \in DOMAIN symbol_table

Messages(k) == {log[k][m] : m \in 1..Len(log[k])}

ResolvedFromTable ==
    \A k \in Handled :
        (HasLabelOperand(lexemes[k]) /\ Declarations(OperandName(lexemes[k])) # {}) =>
            /\ "Could not find label" \notin Messages(k)
            /\ \E e \in EmittedFor(k) :
                   e.token.imm = U32(symbol_table[OperandName(lexemes[k])])

\* C8: the symbol table holds every declared label before the first line is
\* parsed and does not change afterwards; a label operand of j, beq or bne
\* resolves to the label's table value whether the label is declared before
\* or after the line, and is never reported as not found.
C8_TableCompleteBeforeParsing ==
    /\ [](Parsing => (TableComplete /\ ResolvedFromTable))
    /\ [][Parsing => symbol_table' = symbol_table]_vars

\* A finished run with a forward and a backward reference to a label.
C8_Witness ==
    /\ pc = "done"
    /\ \E k \in Handled :
        /\ HasLabelOperand(lexemes[k])
        /\ Declarations(OperandName(lexemes[k])) # {}
        /\ \A d \in Declarations(OperandName(lexemes[k])) : d > k
    /\ \E k \in Handled :
        /\ HasLabelOperand(lexemes[k])
        /\ \E d \in Declarations(OperandName(lexemes[k])) : d < k

\* C9: words are emitted in source order, the k-th (from 0) at Base + 4 * k;
\* the emitted-address counter starts at Base, grows by 4 per emitted word
\* and is unchanged by a line that emits nothing.
C9_EmittedAddresses ==
    /\ line_nr = Base + 4 * Len(output)
    /\ \A k \in 1..Len(output) : output[k].addr = Base + 4 * (k - 1)
    /\ \A k \in 1..(Len(output) - 1) : output[k].line < output[k + 1].line

\* A finished run that emitted two words around a line that emitted none.
C9_Witness ==
    /\ pc = "done"
    /\ Len(output) >= 2
    /\ \E k \in Handled :
        /\ EmittedFor(k) = {}
        /\ output[1].line < k
        /\ k < output[Len(output)].line

\* Every line that starts with a mnemonic yields a record.
AllYield ==
    \A k \in 1..Len(lexemes) :
        (Len(lexemes[k]) > 0 /\ IsMnemonic(lexemes[k][1])) =>
            tokenize_line(lexemes[k], symbol_table).res = "Some"

\* The printed address of the first word emitted after line k, or the
\* address one past the last emitted word.
FirstEmittedAfter(k) ==
    LET later == {e \in Emitted : e.line > k}
    IN  IF later = {} THEN line_nr
        ELSE (CHOOSE e \in later : \A f \in later : e.line <= f.line).addr

\* C10: when every mnemonic line yields a record, the address printed for an
\* instruction is the value build_symbol_table's counter had at its line, and
\* the value recorded at a label declaration is the printed address of the
\* first instruction emitted after it (or one past the last, if none).
C10_PrintedAddressIsCounter ==
    (pc \in {"assemble", "done"} /\ AllYield) =>
        /\ \A e \in Emitted : e.addr = addr_at[e.line]
        /\ pc = "done" =>
               \A k \in Walked :
                   lexemes[k][1].kind = "Label" =>
                       /\ addr_at[k] = FirstEmittedAfter(k)
                       /\ LastDeclaration(k) =>
                              symbol_table[lexemes[k][1].name] = FirstEmittedAfter(k)

\* A finished run whose label is followed by an emitted instruction and whose
\* last label has none after it.
C10_Witness ==
    /\ pc = "done"
    /\ AllYield
    /\ Len(output) >= 2
    /\ \E k \in Walked :
        /\ lexemes[k][1].kind = "Label"
        /\ k > output[1].line
        /\ k < output[Len(output)].line
    /\ \E k \in Walked :
        /\ lexemes[k][1].kind = "Label"
        /\ k > output[Len(output)].line

====
